---- MODULE Spec2Model ----
(***************************************************************************)
(* Channel archive of telegram-mini-app: the ingestion handler of the bot  *)
(* (bot/telegram_bot.py), the posts table behind DatabaseManager and its   *)
(* readers (database/storage.py), and the routes of the Flask backend for  *)
(* the post list, one post, the categories and the statistics              *)
(* (backend/app.py), and the start-up steps: the migration script          *)
(* (database/migrate.py) and the construction of the bot's db_manager.     *)
(*                                                                         *)
(* Strings whose characters matter (message text, keywords) are sequences  *)
(* of one-character strings; a non-ASCII character is written as its code  *)
(* point ("U+043D").  Python's None is the record None, and an optional    *)
(* value v that is present is Some(v).  Times are integers.                *)
(***************************************************************************)
EXTENDS Integers, Sequences, FiniteSets, TLC

VARIABLES
    db_type,    \* DatabaseManager.db_type: "postgres" or "sqlite"
    db_manager, \* the bot's db_manager: "unset", "DatabaseManager" or the "Dummy" class
    schema,     \* the CREATE TABLE that made table posts: "none", "storage", "migrate"
    migration,  \* the most recent migrate_postgres call and what it returned
    posts,      \* the rows of table posts
    seq,        \* last value issued by the id sequence (SERIAL / AUTOINCREMENT)
    conn,       \* DatabaseManager.conn: "open", "aborted" (PostgreSQL transaction
                \* aborted by a failed statement), "closed" (server link lost)
    txn,        \* the transaction of the connection: statement executed, not yet committed
    committed,  \* the records of the committed save_message calls, in commit order
    now,        \* the clock read by CURRENT_TIMESTAMP and datetime.now()
    last,       \* outcome of the most recent handle_channel_post call
    fetched,    \* the most recent read call on DatabaseManager and what it returned
    response    \* the most recent request to a backend route and its response

vars == <<db_type, db_manager, schema, migration, posts, seq, conn, txn, committed,
          now, last, fetched, response>>

\* what only the start-up steps change
setup == <<db_type, db_manager, schema, migration>>

----------------------------------------------------------------------------
(* Bounds *)

MaxMsgs  == 2   \* distinct channel message ids offered to the handler
MaxSeq   == 2   \* values the id sequence may issue in one behaviour
MaxClock == 1   \* ticks of the clock in one behaviour

\* the message ids offered to the handler: 42, 43, ...
MsgIds == 42 .. (41 + MaxMsgs)

----------------------------------------------------------------------------
(* Python values *)

None == [present |-> FALSE]
Some(v) == [present |-> TRUE, val |-> v]

\* `a or b` on optional strings: None and "" are both falsy
StrTruthy(x) == x.present /\ x.val # <<>>

Min(a, b) == IF a <= b THEN a ELSE b
Max(a, b) == IF a >= b THEN a ELSE b

----------------------------------------------------------------------------
(* Text *)

UpperLetters ==
    << "A", "B", "C", "D", "E", "F", "G", "H", "I", "J", "K", "L", "M",
       "N", "O", "P", "Q", "R", "S", "T", "U", "V", "W", "X", "Y", "Z",
       "U+0410", "U+0411", "U+0412", "U+0413", "U+0414", "U+0415", "U+0416",
       "U+0417", "U+0418", "U+0419", "U+041A", "U+041B", "U+041C", "U+041D",
       "U+041E", "U+041F", "U+0420", "U+0421", "U+0422", "U+0423", "U+0424",
       "U+0425", "U+0426", "U+0427", "U+0428", "U+0429", "U+042A", "U+042B",
       "U+042C", "U+042D", "U+042E", "U+042F" >>

LowerLetters ==
    << "a", "b", "c", "d", "e", "f", "g", "h", "i", "j", "k", "l", "m",
       "n", "o", "p", "q", "r", "s", "t", "u", "v", "w", "x", "y", "z",
       "U+0430", "U+0431", "U+0432", "U+0433", "U+0434", "U+0435", "U+0436",
       "U+0437", "U+0438", "U+0439", "U+043A", "U+043B", "U+043C", "U+043D",
       "U+043E", "U+043F", "U+0440", "U+0441", "U+0442", "U+0443", "U+0444",
       "U+0445", "U+0446", "U+0447", "U+0448", "U+0449", "U+044A", "U+044B",
       "U+044C", "U+044D", "U+044E", "U+044F" >>

\* str.lower() on one character, as a table
LowerMap ==
    [c \in {UpperLetters[i] : i \in 1..Len(UpperLetters)} |->
        LowerLetters[CHOOSE i \in 1..Len(UpperLetters) : UpperLetters[i] = c]]

LowerChar(c) == IF c \in DOMAIN LowerMap THEN LowerMap[c] ELSE c

\* str.lower()
Lower(s) == [i \in 1..Len(s) |-> LowerChar(s[i])]

\* `k in s` for strings: k occurs in s as a substring
Contains(s, k) ==
    \E i \in 1..(Len(s) - Len(k) + 1) : SubSeq(s, i, i + Len(k) - 1) = k

\* any(keyword in content_lower for keyword in keywords)
AnyKeyword(s, keywords) ==
    \E j \in 1..Len(keywords) : Contains(s, keywords[j])

NewsKeywords ==
    << <<"n", "e", "w", "s">>,
       <<"u", "p", "d", "a", "t", "e">>,
       <<"b", "r", "e", "a", "k", "i", "n", "g">>,
       <<"U+043D", "U+043E", "U+0432", "U+043E", "U+0441", "U+0442", "U+0438">> >>

AnnouncementKeywords ==
    << <<"a", "n", "n", "o", "u", "n", "c", "e">>,
       <<"i", "m", "p", "o", "r", "t", "a", "n", "t">>,
       <<"n", "o", "t", "i", "c", "e">>,
       <<"U+043E", "U+0431", "U+044A", "U+044F", "U+0432", "U+043B", "U+0435",
         "U+043D", "U+0438", "U+0435">> >>

QuotesKeywords ==
    << <<"q", "u", "o", "t", "e">>,
       <<"U+0446", "U+0438", "U+0442", "U+0430", "U+0442", "U+0430">>,
       <<"U+043C", "U+044B", "U+0441", "U+043B", "U+0438">> >>

PhotosKeywords ==
    << <<"p", "h", "o", "t", "o">>,
       <<"i", "m", "a", "g", "e">>,
       <<"p", "i", "c", "t", "u", "r", "e">>,
       <<"U+0444", "U+043E", "U+0442", "U+043E">>,
       <<"U+043A", "U+0430", "U+0440", "U+0442", "U+0438", "U+043D", "U+043A",
         "U+0430">> >>

VideosKeywords ==
    << <<"v", "i", "d", "e", "o">>,
       <<"U+0432", "U+0438", "U+0434", "U+0435", "U+043E">> >>

\* Message texts offered to the handler
TxtNewsToday ==
    <<"B", "r", "e", "a", "k", "i", "n", "g", " ", "n", "e", "w", "s", " ",
      "t", "o", "d", "a", "y">>
TxtNewsUpdated ==
    <<"B", "r", "e", "a", "k", "i", "n", "g", " ", "n", "e", "w", "s", " ",
      "u", "p", "d", "a", "t", "e", "d">>
TxtNotice ==
    <<"I", "m", "p", "o", "r", "t", "a", "n", "t", " ", "n", "o", "t", "i",
      "c", "e">>
TxtPhotoVideo ==
    <<"N", "i", "c", "e", " ", "P", "H", "O", "T", "O", " ", "a", "n", "d",
      " ", "v", "i", "d", "e", "o">>
TxtImportantUpdate ==
    <<"I", "m", "p", "o", "r", "t", "a", "n", "t", " ", "u", "p", "d", "a",
      "t", "e">>
TxtQuotePhoto ==
    <<"Q", "u", "o", "t", "e", " ", "w", "i", "t", "h", " ", "a", " ", "p",
      "h", "o", "t", "o">>
TxtHello == <<"h", "e", "l", "l", "o">>
TxtRuNews ==
    <<"U+041D", "U+041E", "U+0412", "U+041E", "U+0421", "U+0422", "U+0418">>

----------------------------------------------------------------------------
(* bot/telegram_bot.py: configuration and classification *)

\* CHANNEL_ID, the integer -1003791270028, written as its decimal text
CHANNEL_ID == "-1003791270028"
OtherChatId == "-1001234567890"

AttachmentTypes ==
    {"photo", "video", "document", "audio", "voice", "animation", "sticker"}

\* content = message.text or message.caption or ""
Content(text, caption) ==
    IF StrTruthy(text) THEN text.val
    ELSE IF StrTruthy(caption) THEN caption.val
    ELSE <<>>

\* the if/elif chain over message.photo, .video, .document, .audio
MediaType(att) ==
    IF "photo" \in att THEN "photo"
    ELSE IF "video" \in att THEN "video"
    ELSE IF "document" \in att THEN "document"
    ELSE IF "audio" \in att THEN "audio"
    ELSE "text"

\* media_info, without the attachment's size, duration or file name
MediaInfo(att) ==
    IF "photo" \in att THEN "Photo"
    ELSE IF "video" \in att THEN "Video"
    ELSE IF "document" \in att THEN "Document"
    ELSE IF "audio" \in att THEN "Audio"
    ELSE "Text message"

\* the chain with the announcement test ahead of the news test
CategoryAnnouncementFirst(content, media_type) ==
    LET content_lower == Lower(content) IN
    IF AnyKeyword(content_lower, AnnouncementKeywords) THEN "announcement"
    ELSE IF AnyKeyword(content_lower, NewsKeywords) THEN "news"
    ELSE IF AnyKeyword(content_lower, QuotesKeywords) THEN "quotes"
    ELSE IF AnyKeyword(content_lower, PhotosKeywords) THEN "photos"
    ELSE IF AnyKeyword(content_lower, VideosKeywords) THEN "videos"
    ELSE IF media_type # "text" THEN "media"
    ELSE "general"

\* the chain without the `elif media_type != "text"` branch
CategoryNoMediaBranch(content, media_type) ==
    LET content_lower == Lower(content) IN
    IF AnyKeyword(content_lower, NewsKeywords) THEN "news"
    ELSE IF AnyKeyword(content_lower, AnnouncementKeywords) THEN "announcement"
    ELSE IF AnyKeyword(content_lower, QuotesKeywords) THEN "quotes"
    ELSE IF AnyKeyword(content_lower, PhotosKeywords) THEN "photos"
    ELSE IF AnyKeyword(content_lower, VideosKeywords) THEN "videos"
    ELSE "general"

\* the if/elif chain over the keyword lists
Category(content, media_type) ==
    LET content_lower == Lower(content) IN
    IF AnyKeyword(content_lower, NewsKeywords) THEN "news"
    ELSE IF AnyKeyword(content_lower, AnnouncementKeywords) THEN "announcement"
    ELSE IF AnyKeyword(content_lower, QuotesKeywords) THEN "quotes"
    ELSE IF AnyKeyword(content_lower, PhotosKeywords) THEN "photos"
    ELSE IF AnyKeyword(content_lower, VideosKeywords) THEN "videos"
    ELSE IF media_type # "text" THEN "media"
    ELSE "general"

\* timestamp = message.date or datetime.now()
EventTime(date, clock) == IF date.present THEN date.val ELSE clock

\* the keyword arguments of db_manager.save_message(...)
SaveArgs(u, clock) ==
    LET content == Content(u.text, u.caption)
        media_type == MediaType(u.attachments)
    IN [message_id      |-> u.message_id,
        content         |-> content,
        media_type      |-> media_type,
        category        |-> Category(content, media_type),
        timestamp       |-> EventTime(u.date, clock),
        additional_info |-> MediaInfo(u.attachments)]

\* a notification that goes out for news posts as well
NotifyAdminNewsToo(rec) ==
    rec.category \in {"news", "announcement", "important"} /\ rec.content # <<>>

\* the admin is notified about a saved post
NotifyAdmin(rec) ==
    rec.category \in {"announcement", "important"} /\ rec.content # <<>>

----------------------------------------------------------------------------
(* database/storage.py: table posts *)

DefaultChannel == "@for_you_today"

\* a row inserted from the values of save_message; id, created_at and
\* channel_username come from the column defaults
NewRow(id, rec, created) ==
    [id               |-> id,
     message_id       |-> rec.message_id,
     content          |-> rec.content,
     media_type       |-> rec.media_type,
     category         |-> rec.category,
     timestamp        |-> rec.timestamp,
     additional_info  |-> rec.additional_info,
     created_at       |-> created,
     channel_username |-> DefaultChannel]

\* a DO UPDATE that sets the content column only
PgUpdateRowContentOnly(p, rec) == [p EXCEPT !.content = rec.content]

\* a DO UPDATE whose SET list lacks the timestamp column
PgUpdateRowKeepsTimestamp(p, rec) ==
    [p EXCEPT !.content = rec.content,
              !.media_type = rec.media_type,
              !.category = rec.category,
              !.additional_info = rec.additional_info]

\* ON CONFLICT (message_id) DO UPDATE SET ... = EXCLUDED. ...
PgUpdateRow(p, rec) ==
    [p EXCEPT !.content = rec.content,
              !.media_type = rec.media_type,
              !.category = rec.category,
              !.timestamp = rec.timestamp,
              !.additional_info = rec.additional_info]

\* INSERT ... ON CONFLICT (message_id) DO UPDATE
PgUpsert(ps, rec, id, created) ==
    IF \E p \in ps : p.message_id = rec.message_id
    THEN {IF p.message_id = rec.message_id THEN PgUpdateRow(p, rec) ELSE p : p \in ps}
    ELSE ps \cup {NewRow(id, rec, created)}

\* a plain INSERT into a table whose message_id is not UNIQUE
SqliteInsertOnly(ps, rec, id, created) == ps \cup {NewRow(id, rec, created)}

\* a REPLACE that empties the table before inserting
SqliteReplaceTable(ps, rec, id, created) == {NewRow(id, rec, created)}

\* INSERT OR REPLACE: the row that conflicts on message_id is deleted and a
\* new row is inserted
SqliteInsertOrReplace(ps, rec, id, created) ==
    {p \in ps : p.message_id # rec.message_id} \cup {NewRow(id, rec, created)}

\* cursor.execute of the upsert statement of the database type
ExecuteUpsert(db, ps, rec, id, created) ==
    IF db = "postgres"
    THEN PgUpsert(ps, rec, id, created)
    ELSE SqliteInsertOrReplace(ps, rec, id, created)

\* table posts has the columns the statements of DatabaseManager name
TableReady == schema = "storage"

\* the connection after a statement the server rejected and no rollback:
\* PostgreSQL keeps the transaction aborted until it is rolled back, and a
\* closed connection stays closed; SQLite has no such state
AfterFailedStatement(db, c) ==
    IF db = "postgres" /\ c = "open" THEN "aborted" ELSE c

\* the id values issued to save_message calls: all but those the sample
\* rows of the migration took
IssuedToSaves == seq - Cardinality({p \in posts : "updated_at" \in DOMAIN p})

\* what can go wrong during one save_message call: nothing, the statement
\* is rejected, the commit is rejected, or the link to the PostgreSQL server
\* is lost
SaveFaults == {"none", "execute", "commit", "disconnect"}

\* DatabaseManager.save_message: `ret` is "True" or "False", its return
\* value, or "raised" when an exception leaves it.  The statement draws the
\* next id before the conflict on message_id is resolved; a PostgreSQL
\* sequence keeps the value it issued when the transaction is rolled back,
\* sqlite_sequence does not.  On a lost or closed psycopg2 connection
\* cursor(), execute() or commit() raise, and so does the rollback() of the
\* except block: the exception leaves save_message, and self.conn stays the
\* closed connection (it is only ever created in __init__).  The statement
\* names the columns of the table _init_db creates: on any other table, or
\* none, the server rejects it.  In a PostgreSQL transaction that an
\* earlier statement has aborted, execute() raises and the rollback() of
\* the except block ends that transaction.
save_message(rec, fault, ret) ==
    \/ /\ conn = "open"
       /\ TableReady
       /\ fault = "none"
       /\ posts' = ExecuteUpsert(db_type, posts, rec, seq + 1, now)
       /\ seq' = seq + 1
       /\ conn' = conn
       /\ committed' = Append(committed, rec)
       /\ ret = "True"
    \/ /\ conn = "open"
       /\ ~TableReady
       /\ fault \in {"none", "commit"}
       /\ UNCHANGED <<posts, seq, conn, committed>>
       /\ ret = "False"
    \/ /\ conn = "open"
       /\ fault = "execute"
       /\ UNCHANGED <<posts, seq, conn, committed>>
       /\ ret = "False"
    \/ /\ conn = "open"
       /\ TableReady
       /\ fault = "commit"
       /\ posts' = posts
       /\ seq' = IF db_type = "postgres" THEN seq + 1 ELSE seq
       /\ UNCHANGED <<conn, committed>>
       /\ ret = "False"
    \/ /\ conn \in {"open", "aborted"}
       /\ fault = "disconnect"
       /\ db_type = "postgres"
       /\ UNCHANGED <<posts, seq, committed>>
       /\ conn' = "closed"
       /\ ret = "raised"
    \/ /\ conn = "aborted"
       /\ fault # "disconnect"
       /\ UNCHANGED <<posts, seq, committed>>
       /\ conn' = "open"
       /\ ret = "False"
    \/ /\ conn = "closed"
       /\ UNCHANGED <<posts, seq, conn, committed>>
       /\ ret = "raised"

----------------------------------------------------------------------------
(* bot/telegram_bot.py: the channel post handler *)

NoCall == [event |-> "none"]

\* the rows stored under a message id
StoredAs(ps, message_id) == {p \in ps : p.message_id = message_id}

\* save_message(**kwargs) of the class the bot defines when database.storage
\* cannot be imported: return True
DummySaveMessage(ret) ==
    /\ UNCHANGED <<posts, seq, conn, committed>>
    /\ ret = "True"

\* a handler that takes the posts of every chat
FromAnyChat(u) == TRUE

\* the test `int(message.chat.id) != CHANNEL_ID`, negated
FromChannel(u) == u.chat_id = CHANNEL_ID

\* `last` records what the handler was given, what it passed to
\* save_message, the rows stored under that message id before the call,
\* and whether the admin was notified; for a save that did not succeed,
\* the fault of the call: "failed" is the error logged when save_message
\* returns False, "error" the one logged by the outer except block

\* handle_channel_post(update, context)
HandleChannelPost(u, fault) ==
    /\ db_manager # "unset"
    /\ IssuedToSaves < MaxSeq
    /\ IF ~u.has_post
       THEN /\ UNCHANGED <<posts, seq, conn, committed>>
            /\ last' = [event |-> "no_post"]
       ELSE IF ~FromChannel(u)
       THEN /\ UNCHANGED <<posts, seq, conn, committed>>
            /\ last' = [event |-> "ignored", chat_id |-> u.chat_id]
       ELSE LET rec == SaveArgs(u, now) IN
            \E ret \in {"True", "False", "raised"} :
                /\ IF db_manager = "Dummy"
                   THEN DummySaveMessage(ret)
                   ELSE save_message(rec, fault, ret)
                /\ last' = IF ret = "True"
                           THEN [event    |-> "saved",
                                 update   |-> u,
                                 rec      |-> rec,
                                 before   |-> StoredAs(posts, rec.message_id),
                                 notified |-> NotifyAdmin(rec)]
                           ELSE [event      |-> IF ret = "False" THEN "failed" ELSE "error",
                                 update     |-> u,
                                 fault      |-> fault]
    /\ UNCHANGED <<setup, txn, now, fetched, response>>

\* time passes
Tick ==
    /\ now < MaxClock
    /\ now' = now + 1
    /\ UNCHANGED <<setup, posts, seq, conn, txn, committed, last, fetched, response>>


----------------------------------------------------------------------------
(* database/storage.py: reading table posts *)

\* `if category:` on an optional string
CategoryGiven(category) == category.present /\ category.val # ""

\* `if limit:` on an optional integer
LimitGiven(limit) == limit.present /\ limit.val # 0

\* WHERE channel_username = '@for_you_today' [AND category = ?]
Selected(ps, category) ==
    {p \in ps : /\ p.channel_username = DefaultChannel
                /\ CategoryGiven(category) => p.category = category.val}

\* ORDER BY timestamp DESC: the arrangements of the rows with timestamps
\* non-increasing; the statement names no second key, so rows with equal
\* timestamps come in whatever order the database produces
OrderByTimestampDesc(rows) ==
    LET n == Cardinality(rows) IN
    {s \in [1..n -> rows] :
        /\ \A i, j \in 1..n : i # j => s[i] # s[j]
        /\ \A i \in 1..(n - 1) : s[i].timestamp >= s[i + 1].timestamp}

\* LIMIT ? (appended only when limit is truthy; callers pass none or >= 0)
ApplyLimit(s, limit) ==
    IF LimitGiven(limit) THEN SubSeq(s, 1, Min(limit.val, Len(s))) ELSE s

\* dict(row) with the keys 'channel' and 'channel_url' added
PostDict(p) ==
    [id               |-> p.id,
     message_id       |-> p.message_id,
     content          |-> p.content,
     media_type       |-> p.media_type,
     category         |-> p.category,
     timestamp        |-> p.timestamp,
     additional_info  |-> p.additional_info,
     created_at       |-> p.created_at,
     channel_username |-> p.channel_username,
     channel          |-> "@for_you_today",
     channel_url      |-> "https://t.me/for_you_today"]

\* DatabaseManager.get_all_posts: the lists it may return; a failing query
\* is caught and gives []
get_all_posts(ps, category, limit, fault) ==
    IF fault THEN {<<>>}
    ELSE {[i \in 1..Len(ApplyLimit(s, limit)) |-> PostDict(s[i])] :
            s \in OrderByTimestampDesc(Selected(ps, category))}

\* a SELECT on table posts fails when the server rejects it (`fault`), when
\* the connection is closed or its transaction aborted, and when the table
\* lacks the column channel_username
ReadFails(fault) == fault \/ conn # "open" \/ ~TableReady

\* a caller of get_all_posts (admin_command calls it with limit=5); the
\* except block of the reader does not roll back.  The class the bot
\* defines when database.storage cannot be imported returns [].
GetAllPosts(category, limit, fault) ==
    /\ db_manager # "unset"
    /\ IF db_manager = "Dummy"
       THEN /\ fetched' = [called |-> TRUE, op |-> "get_all_posts",
                           category |-> category, limit |-> limit,
                           fault |-> FALSE, rows |-> <<>>]
            /\ conn' = conn
       ELSE LET failing == ReadFails(fault) IN
            /\ \E rows \in get_all_posts(posts, category, limit, failing) :
                  fetched' = [called |-> TRUE, op |-> "get_all_posts",
                              category |-> category, limit |-> limit,
                              fault |-> failing, rows |-> rows]
            /\ conn' = IF failing THEN AfterFailedStatement(db_type, conn) ELSE conn
    /\ UNCHANGED <<setup, posts, seq, txn, committed, now, last, response>>

\* lower-casing of the ASCII letters only, as SQLite's LIKE compares
LowerAsciiChar(c) ==
    IF c \in {UpperLetters[i] : i \in 1..26} THEN LowerMap[c] ELSE c

LowerAscii(s) == [i \in 1..Len(s) |-> LowerAsciiChar(s[i])]

\* content ILIKE '%query%' (PostgreSQL), content LIKE '%query%' (SQLite,
\* case-insensitive for ASCII letters only), for a query without the
\* wildcard characters % and _
Like(db, content, query) ==
    IF db = "postgres"
    THEN Contains(Lower(content), Lower(query))
    ELSE Contains(LowerAscii(content), LowerAscii(query))

\* dict(row) with the key 'channel' added
SearchDict(p) ==
    [id               |-> p.id,
     message_id       |-> p.message_id,
     content          |-> p.content,
     media_type       |-> p.media_type,
     category         |-> p.category,
     timestamp        |-> p.timestamp,
     additional_info  |-> p.additional_info,
     created_at       |-> p.created_at,
     channel_username |-> p.channel_username,
     channel          |-> "@for_you_today"]

\* DatabaseManager.search_posts: the lists it may return; a failing query
\* is caught and gives []
search_posts(ps, db, query, category, fault) ==
    IF fault THEN {<<>>}
    ELSE {[i \in 1..Len(s) |-> SearchDict(s[i])] :
            s \in OrderByTimestampDesc(
                    {p \in Selected(ps, category) : Like(db, p.content, query)})}

\* DatabaseManager.get_post_by_id: the post dict of the row found by
\* fetchone(), None when there is no row, None when the query fails
get_post_by_id(ps, message_id, fault) ==
    LET rows == {p \in ps : /\ p.message_id = message_id
                            /\ p.channel_username = DefaultChannel} IN
    IF fault \/ rows = {} THEN {None}
    ELSE {Some(PostDict(p)) : p \in rows}

\* DatabaseManager.get_post_count: COUNT(*), 0 when the query fails
get_post_count(ps, fault) ==
    IF fault THEN 0 ELSE Cardinality(Selected(ps, None))

\* DatabaseManager.get_category_stats: GROUP BY category as a dict, {} when
\* the query fails
get_category_stats(ps, fault) ==
    IF fault THEN [c \in {} |-> 0]
    ELSE [c \in {p.category : p \in Selected(ps, None)} |->
            Cardinality({p \in Selected(ps, None) : p.category = c})]

\* a call of search_posts
SearchPosts(query, category, fault) ==
    /\ db_manager = "DatabaseManager"
    /\ LET failing == ReadFails(fault) IN
       /\ \E rows \in search_posts(posts, db_type, query, category, failing) :
             fetched' = [called |-> TRUE, op |-> "search_posts", stored |-> posts,
                         query |-> query,
                         category |-> category, fault |-> failing, rows |-> rows]
       /\ conn' = IF failing THEN AfterFailedStatement(db_type, conn) ELSE conn
    /\ UNCHANGED <<setup, posts, seq, txn, committed, now, last, response>>

\* a call of db_manager.get_post_by_id; the class the bot defines when
\* database.storage cannot be imported has no such method, and the call
\* raises AttributeError
GetPostById(message_id, fault) ==
    /\ db_manager # "unset"
    /\ IF db_manager = "Dummy"
       THEN /\ fetched' = [called |-> TRUE, op |-> "get_post_by_id", stored |-> posts,
                           message_id |-> message_id, fault |-> FALSE,
                           raised |-> TRUE, post |-> None]
            /\ conn' = conn
       ELSE LET failing == ReadFails(fault) IN
            /\ \E post \in get_post_by_id(posts, message_id, failing) :
                  fetched' = [called |-> TRUE, op |-> "get_post_by_id", stored |-> posts,
                              message_id |-> message_id, fault |-> failing,
                              raised |-> FALSE, post |-> post]
            /\ conn' = IF failing THEN AfterFailedStatement(db_type, conn) ELSE conn
    /\ UNCHANGED <<setup, posts, seq, txn, committed, now, last, response>>

\* a call of get_post_count (stats_command, admin_command) and one of
\* get_category_stats (get_database_info calls both)
GetDatabaseInfo(fault) ==
    /\ db_manager = "DatabaseManager"
    /\ LET failing == ReadFails(fault) IN
       /\ fetched' = [called |-> TRUE, op |-> "get_database_info", stored |-> posts,
                      fault |-> failing,
                      post_count |-> get_post_count(posts, failing),
                      category_stats |-> get_category_stats(posts, failing)]
       /\ conn' = IF failing THEN AfterFailedStatement(db_type, conn) ELSE conn
    /\ UNCHANGED <<setup, posts, seq, txn, committed, now, last, response>>

\* error_handler: db_manager.log_error inserts into table logs and commits;
\* its except block only logs.  _init_db creates table logs in the
\* transaction that creates table posts.
LogError(fault) ==
    /\ db_manager = "DatabaseManager"
    /\ LET failing == fault \/ conn # "open" \/ schema # "storage" IN
       conn' = IF failing THEN AfterFailedStatement(db_type, conn) ELSE conn
    /\ UNCHANGED <<setup, posts, seq, txn, committed, now, last, fetched, response>>

----------------------------------------------------------------------------
(* save_message step by step, with a reader on a second connection.  The   *)
(* Application built in main() hands the updates to the handler one at a   *)
(* time, and save_message runs from cursor() to commit() without yielding: *)
(* updates that arrive together are handled one after the other, in either *)
(* order.  Neither driver is put in autocommit mode, so the statement      *)
(* takes effect for other connections at commit().                         *)

NoTxn == [open |-> FALSE]

\* handle_channel_post up to cursor.execute: the statement has run inside
\* the transaction of the connection.  nextval of the PostgreSQL sequence
\* is not undone by a rollback; sqlite_sequence is written with the row.
BeginSave(u) ==
    /\ ~txn.open
    /\ db_manager = "DatabaseManager"
    /\ conn = "open"
    /\ TableReady
    /\ IssuedToSaves < MaxSeq
    /\ u.has_post
    /\ FromChannel(u)
    /\ LET rec == SaveArgs(u, now) IN
       txn' = [open   |-> TRUE,
               update |-> u,
               rec    |-> rec,
               before |-> StoredAs(posts, rec.message_id),
               posts  |-> ExecuteUpsert(db_type, posts, rec, seq + 1, now)]
    /\ seq' = IF db_type = "postgres" THEN seq + 1 ELSE seq
    /\ UNCHANGED <<setup, posts, conn, committed, now, last, fetched, response>>

\* self.conn.commit(), or the rollback of the except block when it fails,
\* and the rest of the handler
EndSave(fault) ==
    /\ txn.open
    /\ IF fault = "none"
       THEN /\ posts' = txn.posts
            /\ seq' = IF db_type = "postgres" THEN seq ELSE seq + 1
            /\ committed' = Append(committed, txn.rec)
            /\ last' = [event    |-> "saved",
                        update   |-> txn.update,
                        rec      |-> txn.rec,
                        before   |-> txn.before,
                        notified |-> NotifyAdmin(txn.rec)]
       ELSE /\ UNCHANGED <<posts, seq, committed>>
            /\ last' = [event |-> "failed", update |-> txn.update, fault |-> fault]
    /\ txn' = NoTxn
    /\ UNCHANGED <<setup, conn, now, fetched, response>>

\* a SELECT by message_id on another connection: it reads the committed rows
ConcurrentRead(message_id) ==
    /\ \E post \in get_post_by_id(posts, message_id, FALSE) :
          fetched' = [called |-> TRUE, op |-> "concurrent_read", stored |-> posts,
                      message_id |-> message_id, during |-> txn.open,
                      fault |-> FALSE, post |-> post]
    /\ UNCHANGED <<setup, posts, seq, conn, txn, committed, now, last, response>>

----------------------------------------------------------------------------
(* database/migrate.py and DatabaseManager.__init__: the start-up steps *)

\* os.environ.get('DATABASE_URL'): the variable that also decides db_type
DatabaseUrls(db) ==
    IF db = "postgres" THEN {"postgres://", "postgresql://"} ELSE {"unset"}

\* the steps of migrate_postgres inside its try block at which an
\* exception may be raised
MigrateFaults == {"none", "import", "connect", "check", "create", "insert", "commit"}

\* the step is reached: the CREATE and INSERT steps only run when the table
\* does not exist
FaultReached(fault, table_exists) ==
    \/ fault \in {"import", "connect", "check", "commit"}
    \/ fault \in {"create", "insert"} /\ ~table_exists

\* the path migrate_postgres takes
MigratePath(url, table_exists, fault) ==
    IF url = "unset" THEN "skipped"
    ELSE IF FaultReached(fault, table_exists) THEN "except"
    ELSE IF table_exists THEN "exists"
    ELSE "created"

\* an except block that reports the failure to the build
MigrateReturnFailsBuild(path) == path # "except"

\* the return statement of each path
MigrateReturn(path) ==
    CASE path = "skipped" -> TRUE
      [] path = "except"  -> TRUE
      [] path = "exists"  -> TRUE
      [] path = "created" -> TRUE

\* the rows of the INSERT of sample data into the table migrate.py creates
SampleRows(created) ==
    { [id |-> 1, message_id |-> 1,
       content |-> <<"W", "e", "l", "c", "o", "m", "e", " ", "t", "o", " ", "T",
                 "e", "l", "e", "g", "r", "a", "m", " ", "M", "i", "n", "i",
                 " ", "A", "p", "p", "!">>,
       media_type |-> "text", category |-> "general",
       timestamp |-> created, created_at |-> created, updated_at |-> created],
      [id |-> 2, message_id |-> 2,
       content |-> <<"I", "m", "p", "o", "r", "t", "a", "n", "t", " ", "a", "n",
                 "n", "o", "u", "n", "c", "e", "m", "e", "n", "t">>,
       media_type |-> "text", category |-> "important",
       timestamp |-> created, created_at |-> created, updated_at |-> created],
      [id |-> 3, message_id |-> 3,
       content |-> <<"D", "a", "i", "l", "y", " ", "n", "e", "w", "s", " ", "u",
                 "p", "d", "a", "t", "e">>,
       media_type |-> "text", category |-> "news",
       timestamp |-> created, created_at |-> created, updated_at |-> created] }

\* migrate_postgres() run as a script.  When a step after CREATE TABLE
\* raises, the table is gone with the rolled-back transaction, or it stays
\* when the engine commits each statement on its own.
MigratePostgres(url, fault) ==
    /\ url \in DatabaseUrls(db_type)
    /\ LET table_exists == schema # "none"
           path == MigratePath(url, table_exists, fault)
       IN /\ migration' = [called    |-> TRUE,
                           url       |-> url,
                           fault     |-> fault,
                           path      |-> path,
                           returned  |-> MigrateReturn(path),
                           exit_code |-> IF MigrateReturn(path) THEN 0 ELSE 1]
          /\ CASE path = "created" ->
                    /\ schema' = "migrate"
                    /\ posts' = SampleRows(now)
                    /\ seq' = seq + Cardinality(SampleRows(now))
               [] path = "except" /\ ~table_exists /\ fault = "insert" ->
                    /\ schema' \in {"none", "migrate"}
                    /\ UNCHANGED <<posts, seq>>
               [] path = "except" /\ ~table_exists /\ fault = "commit" ->
                    \/ UNCHANGED <<schema, posts, seq>>
                    \/ /\ schema' = "migrate"
                       /\ posts' = SampleRows(now)
                       /\ seq' = seq + Cardinality(SampleRows(now))
               [] OTHER -> UNCHANGED <<schema, posts, seq>>
    /\ UNCHANGED <<db_type, db_manager, conn, txn, committed, now, last, fetched, response>>

\* _init_db: CREATE TABLE IF NOT EXISTS leaves an existing table posts as it
\* is.  (On the table of migrate.py the CREATE INDEX on channel_username
\* then fails and the except block rolls back.)
init_db(sch) == IF sch = "none" THEN "storage" ELSE sch

\* the start of bot/telegram_bot.py: `from database.storage import
\* DatabaseManager; db_manager = DatabaseManager()`, or on ImportError
\* (storage.py imports psycopg2 unconditionally) the class defined in the
\* except block
StartBot(import_ok) ==
    /\ db_manager = "unset"
    /\ IF import_ok
       THEN /\ db_manager' = "DatabaseManager"
            /\ schema' = init_db(schema)
       ELSE /\ db_manager' = "Dummy"
            /\ schema' = schema
    /\ conn' = "open"
    /\ UNCHANGED <<db_type, migration, posts, seq, txn, committed, now, last, fetched,
                   response>>

----------------------------------------------------------------------------
(* backend/app.py: the storage object and GET /api/posts *)

\* the names `from database.storage import ...` can find: storage.py
\* defines the module-level logger and the class DatabaseManager
StorageModuleNames == {"logger", "DatabaseManager"}

\* from database.storage import ChannelStorage succeeds
STORAGE_AVAILABLE == "ChannelStorage" \in StorageModuleNames

\* the module-level `storage` after initialisation
storage == IF STORAGE_AVAILABLE THEN "ChannelStorage" ELSE "DummyStorage"

\* DummyStorage.fetch_posts(**kwargs)
DummyStorage_fetch_posts(category, limit, offset) == <<>>

\* DummyStorage.count_posts(category=None)
DummyStorage_count_posts(category) == 0

\* DummyStorage.get_categories()
DummyStorage_get_categories == <<>>

DefaultLimit == 100
MaxLimit == 1000

\* the limit of fetch_posts in get_post_by_id and in get_stats
LookupWindow == 1000
StatsWindow == 1000

\* a query parameter as sent: absent, an integer, or text that is no integer
ArgAbsent == [kind |-> "absent"]
ArgInt(n) == [kind |-> "int", val |-> n]
ArgText == [kind |-> "text"]

\* request.args.get(key, default=d, type=int): a missing parameter, or one
\* int() rejects, gives the default
args_get_int(raw, d) == IF raw.kind = "int" THEN raw.val ELSE d

\* a test `limit < 0` in place of `limit <= 0`
ClampLimitZeroPasses(limit) ==
    IF limit < 0 \/ limit > MaxLimit THEN DefaultLimit ELSE limit

\* an over-large limit cut down to the maximum instead of the default
ClampLimitToMax(limit) ==
    IF limit <= 0 THEN DefaultLimit
    ELSE IF limit > MaxLimit THEN MaxLimit
    ELSE limit

\* if limit <= 0 or limit > 1000: limit = 100
ClampLimit(limit) == IF limit <= 0 \/ limit > MaxLimit THEN DefaultLimit ELSE limit

\* if offset < 0: offset = 0
ClampOffset(offset) == IF offset < 0 THEN 0 ELSE offset

\* (offset + len(posts)) < total_count
HasMore(offset, n, total_count) == (offset + n) < total_count

\* get_posts(): the response to GET /api/posts.  Nothing in the try block
\* raises with the storage object in place, so the answer is always the
\* 200 response.
get_posts(category, limit_arg, offset_arg, clock) ==
    LET limit  == ClampLimit(args_get_int(limit_arg, DefaultLimit))
        offset == ClampOffset(args_get_int(offset_arg, 0))
        items  == DummyStorage_fetch_posts(category, limit, offset)
        total_count == DummyStorage_count_posts(category)
    IN [status     |-> 200,
        success    |-> TRUE,
        data       |-> items,
        pagination |-> [limit    |-> limit,
                        offset   |-> offset,
                        total    |-> total_count,
                        has_more |-> HasMore(offset, Len(items), total_count)],
        meta       |-> [category_filter |-> category,
                        count           |-> Len(items),
                        timestamp       |-> clock,
                        channel         |-> DefaultChannel]]

\* one GET /api/posts request; `response` keeps the request, the rows of
\* table posts at that moment, and the response body
GetPosts(category, limit_arg, offset_arg) ==
    /\ storage = "DummyStorage"
    /\ response' = [called   |-> TRUE,
                    route    |-> "posts",
                    category |-> category,
                    limit    |-> limit_arg,
                    offset   |-> offset_arg,
                    stored   |-> posts,
                    body     |-> get_posts(category, limit_arg, offset_arg, now)]
    /\ UNCHANGED <<setup, posts, seq, conn, txn, committed, now, last, fetched>>

\* get_post_by_id(message_id): the response to GET /api/posts/<message_id>,
\* the first of the fetched posts with that message_id, else 404
route_get_post_by_id(message_id) ==
    LET items == DummyStorage_fetch_posts(None, LookupWindow, 0)
        hits  == {i \in 1..Len(items) : items[i].message_id = message_id}
    IN IF hits # {}
       THEN [status  |-> 200,
             success |-> TRUE,
             data    |-> items[CHOOSE i \in hits : \A j \in hits : i <= j]]
       ELSE [status |-> 404, success |-> FALSE, error |-> "Post not found"]

\* get_categories(): the response to GET /api/categories
route_get_categories ==
    LET categories == DummyStorage_get_categories IN
    [status  |-> 200,
     success |-> TRUE,
     data    |-> [i \in 1..Len(categories) |->
                    [name  |-> categories[i],
                     count |-> DummyStorage_count_posts(Some(categories[i]))]]]

\* the loop media_stats[media_type] = media_stats.get(media_type, 0) + 1
MediaStats(items) ==
    [m \in {items[i].media_type : i \in 1..Len(items)} |->
        Cardinality({i \in 1..Len(items) : items[i].media_type = m})]

\* get_stats(): the response to GET /api/stats
route_get_stats(clock) ==
    LET total_posts == DummyStorage_count_posts(None)
        categories  == DummyStorage_get_categories
        items       == DummyStorage_fetch_posts(None, StatsWindow, 0)
    IN [status  |-> 200,
        success |-> TRUE,
        data    |-> [total_posts  |-> total_posts,
                     media_types  |-> MediaStats(items),
                     categories   |-> Len(categories),
                     channel      |-> DefaultChannel,
                     collected_at |-> clock]]

\* one GET /api/posts/<message_id> request
GetPostByIdRoute(message_id) ==
    /\ storage = "DummyStorage"
    /\ response' = [called     |-> TRUE,
                    route      |-> "post_by_id",
                    message_id |-> message_id,
                    stored     |-> posts,
                    body       |-> route_get_post_by_id(message_id)]
    /\ UNCHANGED <<setup, posts, seq, conn, txn, committed, now, last, fetched>>

\* one GET /api/categories request
GetCategories ==
    /\ storage = "DummyStorage"
    /\ response' = [called |-> TRUE,
                    route  |-> "categories",
                    stored |-> posts,
                    body   |-> route_get_categories]
    /\ UNCHANGED <<setup, posts, seq, conn, txn, committed, now, last, fetched>>

\* one GET /api/stats request
GetStats ==
    /\ storage = "DummyStorage"
    /\ response' = [called |-> TRUE,
                    route  |-> "stats",
                    stored |-> posts,
                    body   |-> route_get_stats(now)]
    /\ UNCHANGED <<setup, posts, seq, conn, txn, committed, now, last, fetched>>

----------------------------------------------------------------------------
(* Inputs *)

Update(chat, id, text, caption, att, date) ==
    [has_post |-> TRUE, chat_id |-> chat, message_id |-> id, text |-> text,
     caption |-> caption, attachments |-> att, date |-> date]

\* an update that carries no channel post
NoPostUpdate ==
    [has_post |-> FALSE, chat_id |-> CHANNEL_ID, message_id |-> 42,
     text |-> None, caption |-> None, attachments |-> {}, date |-> None]

\* a post of another chat
ForeignUpdate ==
    Update(OtherChatId, 42, Some(TxtNewsToday), None, {}, None)

\* text, caption, attachments, date
Variants ==
    { <<Some(TxtNewsToday), None, {}, None>>,
      <<Some(TxtNewsUpdated), None, {}, Some(1)>>,
      <<None, Some(TxtNotice), {"photo"}, None>>,
      <<Some(<<>>), Some(TxtHello), {"video", "document"}, Some(1)>> }

Updates ==
    {Update(CHANNEL_ID, id, v[1], v[2], v[3], v[4]) : id \in MsgIds, v \in Variants}

\* handler calls: every update with storage working, the unfiltered ones,
\* and one update per message id with storage failing
Calls ==
    {[update |-> u, fault |-> "none"] : u \in Updates \cup {NoPostUpdate, ForeignUpdate}}
    \cup {[update |-> Update(CHANNEL_ID, id, Some(TxtNewsUpdated), None, {}, None),
           fault |-> f] : id \in MsgIds, f \in SaveFaults \ {"none"}}

\* the updates of the specification of get_all_posts: per message id a text
\* post dated by the clock and a captioned photo dated 1
FetchUpdates ==
    {Update(CHANNEL_ID, id, Some(TxtNewsToday), None, {}, None) : id \in MsgIds}
    \cup {Update(CHANNEL_ID, id, None, Some(TxtHello), {"photo"}, Some(1)) : id \in MsgIds}

\* the updates of the specification of GET /api/posts: a news post per
\* message id, and a captioned photo
QueryUpdates ==
    {Update(CHANNEL_ID, id, Some(TxtNewsToday), None, {}, Some(1)) : id \in MsgIds}
    \cup {Update(CHANNEL_ID, 42, None, Some(TxtHello), {"photo"}, Some(1))}

\* every combination of attachments, with and without a caption
ClassifyUpdates ==
    {Update(CHANNEL_ID, 42, None, c, att, None) :
        c \in {None, Some(TxtHello)}, att \in SUBSET AttachmentTypes}

\* texts that match no rule, one rule, or several rules, as text or as
\* caption, with and without an attachment
CategoryUpdates ==
    {Update(CHANNEL_ID, 42, tc[1], tc[2], att, None) :
        tc \in {<<Some(t), None>> : t \in {<<>>, TxtHello, TxtNewsToday, TxtNotice,
                                           TxtImportantUpdate, TxtQuotePhoto,
                                           TxtPhotoVideo, TxtRuNews}}
              \cup {<<None, Some(TxtImportantUpdate)>>, <<None, Some(TxtPhotoVideo)>>},
        att \in {{}, {"photo"}, {"voice"}}}

\* the updates of the specification of the remaining readers: a news post
\* per message id, a captioned photo, and a post in upper-case Cyrillic
ReaderUpdates ==
    {Update(CHANNEL_ID, id, Some(TxtNewsToday), None, {}, Some(1)) : id \in MsgIds}
    \cup {Update(CHANNEL_ID, 42, None, Some(TxtHello), {"photo"}, None),
          Update(CHANNEL_ID, 43, Some(TxtRuNews), None, {}, Some(1))}

\* updates that arrive together: two posts under message id 42 that differ
\* in content, media type, category and date, and a post per message id
ConcurrentUpdates ==
    {Update(CHANNEL_ID, id, Some(TxtNewsToday), None, {}, None) : id \in MsgIds}
    \cup {Update(CHANNEL_ID, 42, None, Some(TxtHello), {"photo"}, Some(1))}

\* the updates of the start-up specification: a news post per message id and
\* a photo without caption, whose content is the empty string
StartupUpdates ==
    {Update(CHANNEL_ID, id, Some(TxtNewsToday), None, {}, Some(1)) : id \in MsgIds}
    \cup {Update(CHANNEL_ID, 42, None, None, {"photo"}, Some(1))}

\* search strings: empty, lower case, upper case, lower-case Cyrillic, and
\* one that occurs nowhere
SearchQueries ==
    { <<>>, <<"n", "e", "w", "s">>, <<"N", "E", "W", "S">>,
      <<"U+043D", "U+043E", "U+0432">>, <<"z", "z">> }

\* get_all_posts calls: category, limit, and whether the query fails
FetchCalls ==
    {[category |-> c, limit |-> l, fault |-> FALSE] :
        c \in {None, Some(""), Some("news")},
        l \in {None, Some(0), Some(1), Some(5)}}
    \cup {[category |-> None, limit |-> None, fault |-> TRUE]}

QueryCategories == {None, Some("news")}
QueryLimits ==
    {ArgAbsent, ArgText, ArgInt(-1), ArgInt(0), ArgInt(1), ArgInt(100),
     ArgInt(1000), ArgInt(1001), ArgInt(5000)}
QueryOffsets == {ArgAbsent, ArgInt(-5), ArgInt(0), ArgInt(1)}

----------------------------------------------------------------------------
(* Specifications *)

NoFetch == [called |-> FALSE]
NoResponse == [called |-> FALSE]

NoMigration == [called |-> FALSE]

\* the bot after its start: database.storage was imported and
\* DatabaseManager() has created table posts
Init ==
    /\ db_type \in {"postgres", "sqlite"}
    /\ db_manager = "DatabaseManager"
    /\ schema = "storage"
    /\ migration = NoMigration
    /\ posts = {}
    /\ seq = 0
    /\ conn = "open"
    /\ txn = NoTxn
    /\ committed = <<>>
    /\ now = 0
    /\ last = NoCall
    /\ fetched = NoFetch
    /\ response = NoResponse

Ingest == \E c \in Calls : HandleChannelPost(c.update, c.fault)

IngestFetch == \E u \in FetchUpdates : HandleChannelPost(u, "none")

IngestQuery == \E u \in QueryUpdates : HandleChannelPost(u, "none")

IngestClassify == \E u \in ClassifyUpdates : HandleChannelPost(u, "none")

IngestCategory == \E u \in CategoryUpdates : HandleChannelPost(u, "none")

IngestReader == \E u \in ReaderUpdates : HandleChannelPost(u, "none")

Search ==
    \E query \in SearchQueries, category \in {None, Some("news")}, fault \in BOOLEAN :
        SearchPosts(query, category, fault)

Lookup == \E message_id \in MsgIds \cup {7}, fault \in BOOLEAN : GetPostById(message_id, fault)

DatabaseInfo == \E fault \in BOOLEAN : GetDatabaseInfo(fault)

PostById == \E message_id \in MsgIds \cup {7} : GetPostByIdRoute(message_id)

\* the database before any start-up step: no table posts, no db_manager
InitEmpty ==
    /\ db_type \in {"postgres", "sqlite"}
    /\ db_manager = "unset"
    /\ schema = "none"
    /\ migration = NoMigration
    /\ posts = {}
    /\ seq = 0
    /\ conn = "open"
    /\ txn = NoTxn
    /\ committed = <<>>
    /\ now = 0
    /\ last = NoCall
    /\ fetched = NoFetch
    /\ response = NoResponse

Migrate ==
    \E url \in {"unset", "postgres://", "postgresql://"}, fault \in MigrateFaults :
        MigratePostgres(url, fault)

Start == \E import_ok \in BOOLEAN : StartBot(import_ok)

IngestStartup == \E u \in StartupUpdates : HandleChannelPost(u, "none")

FetchStartup == GetAllPosts(None, None, FALSE)

LookupStartup == \E message_id \in MsgIds : GetPostById(message_id, FALSE)

\* reads and error-log writes that the server rejects
FailedRead ==
    \/ GetAllPosts(None, None, TRUE)
    \/ SearchPosts(<<"n", "e", "w", "s">>, None, TRUE)
    \/ \E message_id \in MsgIds : GetPostById(message_id, TRUE)
    \/ GetDatabaseInfo(TRUE)

FailedLog == LogError(TRUE)

Begin == \E u \in ConcurrentUpdates : BeginSave(u)

End == \E fault \in {"none", "commit"} : EndSave(fault)

Read == \E message_id \in MsgIds : ConcurrentRead(message_id)

Fetch == \E c \in FetchCalls : GetAllPosts(c.category, c.limit, c.fault)

ListPosts ==
    \E category \in QueryCategories, limit \in QueryLimits, offset \in QueryOffsets :
        GetPosts(category, limit, offset)

\* ingestion and storage
Next == Ingest \/ Tick
Spec == Init /\ [][Next]_vars

\* ingestion and the reader get_all_posts, within one reading of the clock
NextFetch == IngestFetch \/ Fetch
SpecFetch == Init /\ [][NextFetch]_vars

\* ingestion and the readers search_posts, get_post_by_id, get_post_count
\* and get_category_stats, within one reading of the clock
NextReaders == IngestReader \/ Search \/ Lookup \/ DatabaseInfo
SpecReaders == Init /\ [][NextReaders]_vars

\* ingestion and the routes for one post, the categories and the statistics
NextRoutes == IngestReader \/ PostById \/ GetCategories \/ GetStats
SpecRoutes == Init /\ [][NextRoutes]_vars

\* the migration script and the start of the bot in either order, then
\* ingestion and reads
NextStartup == Migrate \/ Start \/ IngestStartup \/ FetchStartup \/ LookupStartup
SpecStartup == InitEmpty /\ [][NextStartup]_vars

\* ingestion with nothing going wrong during a save, between reads and
\* error-log writes that fail
NextRecovery == IngestReader \/ FailedRead \/ FailedLog
SpecRecovery == Init /\ [][NextRecovery]_vars

\* saves step by step and a reader on another connection
NextConcurrent == Begin \/ End \/ Read
SpecConcurrent == Init /\ [][NextConcurrent]_vars

\* ingestion and the list-posts route, within one reading of the clock
NextQuery == IngestQuery \/ ListPosts
SpecQuery == Init /\ [][NextQuery]_vars

\* classification of every attachment combination, and of texts that match
\* none, one or several of the keyword rules
NextClassify == IngestClassify \/ IngestCategory
SpecClassify == Init /\ [][NextClassify]_vars

----------------------------------------------------------------------------
(* Properties of ingestion and storage, checked under Spec *)

\* C1: in every reachable state no two stored posts share a message_id: an
\* upsert of a message_id that is already stored never adds a second row.
C1_UniqueMessageId ==
    \A p, q \in posts : p.message_id = q.message_id => p = q

\* an upsert of a stored message id has committed, and one row is stored
C1_Witness ==
    /\ last.event = "saved"
    /\ last.before # {}
    /\ Cardinality(StoredAs(posts, last.rec.message_id)) = 1

\* C2: after an upsert of a message id, also one that was stored before with
\* other content, exactly one row is stored for the id, and it holds the
\* content, media_type, category and timestamp of that latest upsert.
C2_LatestUpsertStored ==
    last.event = "saved" =>
        /\ Cardinality(StoredAs(posts, last.rec.message_id)) = 1
        /\ \A p \in StoredAs(posts, last.rec.message_id) :
              /\ p.content = last.rec.content
              /\ p.media_type = last.rec.media_type
              /\ p.category = last.rec.category
              /\ p.timestamp = last.rec.timestamp

\* id 42 was stored as "Breaking news today" and is upserted again as
\* "Breaking news updated": one row, news/text, with the new content
C2_Witness ==
    /\ last.event = "saved"
    /\ last.rec.message_id = 42
    /\ \E b \in last.before : b.content = TxtNewsToday /\ b.category = "news"
    /\ \E p \in posts :
          /\ StoredAs(posts, 42) = {p}
          /\ p.content = TxtNewsUpdated
          /\ p.category = "news"
          /\ p.media_type = "text"
          /\ \A b \in last.before : p.timestamp # b.timestamp

\* C3: an upsert of a message id that is already stored leaves the row's id
\* and created_at as they were, under PostgreSQL and under SQLite.
C3_IdAndCreatedAtKept ==
    last.event = "saved" =>
        \A b \in last.before :
            \A p \in StoredAs(posts, b.message_id) :
                p.id = b.id /\ p.created_at = b.created_at

----------------------------------------------------------------------------
(* Properties of get_all_posts, checked under SpecFetch *)

\* C5: the list get_all_posts returns is non-increasing in timestamp, and two
\* posts of equal timestamp come in descending id order.
C5_FetchOrder ==
    fetched.called =>
        \A i \in 1..(Len(fetched.rows) - 1) :
            \/ fetched.rows[i].timestamp > fetched.rows[i + 1].timestamp
            \/ /\ fetched.rows[i].timestamp = fetched.rows[i + 1].timestamp
               /\ fetched.rows[i].id > fetched.rows[i + 1].id

----------------------------------------------------------------------------
(* Properties of GET /api/posts, checked under SpecQuery *)

\* the stored posts a category filter selects
Matching(ps, category) ==
    {p \in ps : CategoryGiven(category) => p.category = category.val}

\* the limit and offset the route is to use for the parameters sent
EffectiveLimit(raw) ==
    IF raw.kind = "int" /\ raw.val >= 1 /\ raw.val <= 1000 THEN raw.val ELSE 100
EffectiveOffset(raw) ==
    IF raw.kind = "int" /\ raw.val >= 0 THEN raw.val ELSE 0

\* C4: a post of the channel that was saved is served back: a list-posts
\* request with no category filter, offset 0 and a limit above the number of
\* stored posts returns every stored message_id, and total is at least 1.
C4_SavedPostIsServed ==
    ( /\ response.called
      /\ ~CategoryGiven(response.category)
      /\ response.body.pagination.offset = 0
      /\ response.body.pagination.limit > Cardinality(response.stored) )
    => /\ \A p \in response.stored :
              \E i \in 1..Len(response.body.data) :
                  response.body.data[i].message_id = p.message_id
       /\ response.stored # {} => response.body.pagination.total >= 1

\* C6: for a limit in 1..1000 and an offset >= 0 the number of posts returned
\* is min(limit, max(0, total - offset)), total being the number of stored
\* posts the category filter selects.
C6_PageSize ==
    ( /\ response.called
      /\ response.limit.kind = "int"
      /\ response.limit.val >= 1 /\ response.limit.val <= 1000
      /\ response.offset.kind = "int"
      /\ response.offset.val >= 0 )
    => Len(response.body.data) =
          Min(response.limit.val,
              Max(0, Cardinality(Matching(response.stored, response.category))
                     - response.offset.val))

\* C7: bad pagination input is never an error: a limit that is not in
\* 1..1000 is replaced by 100 and a negative offset by 0, so the request is
\* answered exactly as the request with the replaced values is (limit=0,
\* offset=-5 as limit=100, offset=0); values in range are used as sent.
C7_BadPaginationClamped ==
    response.called =>
        /\ response.body.status = 200
        /\ response.body.success
        /\ response.body.pagination.limit = EffectiveLimit(response.limit)
        /\ response.body.pagination.offset = EffectiveOffset(response.offset)
        /\ response.body =
              get_posts(response.category,
                        ArgInt(EffectiveLimit(response.limit)),
                        ArgInt(EffectiveOffset(response.offset)),
                        response.body.meta.timestamp)

\* the request limit=0, offset=-5 was answered with limit 100, offset 0
C7_Witness ==
    /\ response.called
    /\ response.limit = ArgInt(0)
    /\ response.offset = ArgInt(-5)
    /\ response.body.status = 200
    /\ response.body.pagination.limit = 100
    /\ response.body.pagination.offset = 0
    /\ response.stored # {}

\* what two answers must share to count as the same behaviour
SamePage(a, b) ==
    /\ a.data = b.data
    /\ a.pagination.limit = b.pagination.limit
    /\ a.pagination.has_more = b.pagination.has_more

\* C8 as stated: a request with limit=5000 is answered as the request with
\* limit=1000 is: same items, same effective limit, same has_more.
C8_Limit5000AsLimit1000 ==
    (response.called /\ response.limit = ArgInt(5000)) =>
        SamePage(response.body,
                 get_posts(response.category, ArgInt(1000), response.offset,
                           response.body.meta.timestamp))

\* C8 as amended: a request with limit=5000 is answered as the request with
\* limit=100 is: same items, same effective limit (100), same has_more.
C8_Limit5000AsLimit100 ==
    (response.called /\ response.limit = ArgInt(5000)) =>
        /\ response.body.pagination.limit = 100
        /\ SamePage(response.body,
                    get_posts(response.category, ArgInt(100), response.offset,
                              response.body.meta.timestamp))

\* a request with limit=5000 was answered, with posts stored
C8_Witness ==
    /\ response.called
    /\ response.limit = ArgInt(5000)
    /\ response.body.pagination.limit = 100
    /\ response.stored # {}

\* C9: has_more is (effective offset + number of returned items) < total,
\* total being the number of stored posts the category filter selects: it is
\* true exactly when matching posts lie beyond the returned page.
C9_HasMore ==
    response.called =>
        response.body.pagination.has_more =
            ( response.body.pagination.offset + Len(response.body.data)
              < Cardinality(Matching(response.stored, response.category)) )

----------------------------------------------------------------------------
(* Properties of classification, checked under SpecClassify *)

\* the media kind by the priority order photo, video, document,
\* audio-or-voice, animation (as video), sticker; text with none of them
PriorityMediaKind(att) ==
    IF "photo" \in att THEN "photo"
    ELSE IF "video" \in att THEN "video"
    ELSE IF "document" \in att THEN "document"
    ELSE IF "audio" \in att \/ "voice" \in att THEN "audio"
    ELSE IF "animation" \in att THEN "video"
    ELSE IF "sticker" \in att THEN "sticker"
    ELSE "text"

\* C10: the media kind of a message is the first attachment type present in
\* the order photo, video, document, audio-or-voice, animation (as video),
\* sticker, and text only with no such attachment; it is always one of
\* text, photo, video, document, audio, sticker.
C10_MediaKindByPriority ==
    last.event = "saved" =>
        /\ last.rec.media_type = PriorityMediaKind(last.update.attachments)
        /\ last.rec.media_type \in
              {"text", "photo", "video", "document", "audio", "sticker"}

\* the rules in the order news, announcement, quotes, photos, videos
RuleTable ==
    << [category |-> "news", keywords |-> NewsKeywords],
       [category |-> "announcement", keywords |-> AnnouncementKeywords],
       [category |-> "quotes", keywords |-> QuotesKeywords],
       [category |-> "photos", keywords |-> PhotosKeywords],
       [category |-> "videos", keywords |-> VideosKeywords] >>

\* the rules with a keyword occurring in the lower-cased content
MatchingRules(content) ==
    {i \in 1..Len(RuleTable) : AnyKeyword(Lower(content), RuleTable[i].keywords)}

\* C11: the category is that of the first rule, in the order news,
\* announcement, quotes, photos, videos, with a keyword occurring in the
\* lower-cased content; content matching several rules gets the category of
\* the earliest, whatever the media kind.
C11_FirstRuleWins ==
    (last.event = "saved" /\ MatchingRules(last.rec.content) # {}) =>
        \E i \in MatchingRules(last.rec.content) :
            /\ \A j \in MatchingRules(last.rec.content) : i <= j
            /\ last.rec.category = RuleTable[i].category

\* a captioned photo whose caption matches the news and the announcement
\* rule was classified as news
C11_Witness ==
    /\ last.event = "saved"
    /\ last.rec.content = TxtImportantUpdate
    /\ last.rec.media_type = "photo"
    /\ MatchingRules(last.rec.content) = {1, 2}
    /\ last.rec.category = "news"

\* C12: classification always yields a result: with no rule matching, the
\* category is media when the media kind is not text and general otherwise;
\* empty content with no attachment gives category general, media kind text.
C12_DefaultCategory ==
    last.event = "saved" =>
        /\ last.rec.category \in
              {"news", "announcement", "quotes", "photos", "videos", "media", "general"}
        /\ MatchingRules(last.rec.content) = {} =>
              last.rec.category =
                  IF last.rec.media_type # "text" THEN "media" ELSE "general"
        /\ (last.rec.content = <<>> /\ last.update.attachments = {}) =>
              (last.rec.category = "general" /\ last.rec.media_type = "text")

\* a message with empty content and no attachment was classified
C12_Witness ==
    /\ last.event = "saved"
    /\ last.rec.content = <<>>
    /\ last.update.attachments = {}
    /\ last.rec.category = "general"
    /\ last.rec.media_type = "text"

\* C13: a post of a chat other than the configured channel is dropped: the
\* step that ignores it leaves the posts and the id sequence as they were,
\* and only posts of the configured channel are ever saved or reported as
\* failed.
C13_ForeignChatDropped ==
    [][ /\ last'.event = "ignored" => UNCHANGED <<posts, seq>>
        /\ last'.event \in {"saved", "failed", "error"} =>
              last'.update.chat_id = CHANNEL_ID ]_vars

\* a post of another chat was ignored while posts were stored
C13_Witness ==
    /\ last.event = "ignored"
    /\ last.chat_id # CHANNEL_ID
    /\ posts # {}

\* C18: a save that fails is logged and leaves the posts as they were, and
\* the handler goes on to the next message, whose save succeeds when nothing
\* goes wrong with the storage during that call.
C18_FailedSaveThenRecovery ==
    [][ last'.event \in {"failed", "error"} =>
            (posts' = posts /\ last'.fault # "none") ]_vars

\* C14: a search with the empty query returns the empty result, whatever is
\* stored.
C14_EmptyQueryFindsNothing ==
    (fetched.called /\ fetched.op = "search_posts" /\ fetched.query = <<>>) =>
        fetched.rows = <<>>

\* C19: when the storage operation behind a read fails, the caller gets a
\* failure it can tell from a successful empty result: what a failed
\* get_all_posts call returns is not what a successful call on an empty
\* archive returns.
C19_FailureDistinguishable ==
    (fetched.called /\ fetched.op = "get_all_posts" /\ fetched.fault) =>
        fetched.rows \notin get_all_posts({}, fetched.category, fetched.limit, FALSE)

\* C15: the route for one post answers 200 with the stored post when a post
\* with the requested message id is stored, and 404 exactly when none is.
C15_PostByIdFound ==
    (response.called /\ response.route = "post_by_id") =>
        IF \E p \in response.stored : p.message_id = response.message_id
        THEN /\ response.body.status = 200
             /\ \E p \in response.stored :
                   /\ p.message_id = response.message_id
                   /\ response.body.data.message_id = p.message_id
                   /\ response.body.data.content = p.content
        ELSE response.body.status = 404

\* the categories of the stored posts with the number of posts in each
CategoryCounts(ps) ==
    {<<c, Cardinality({p \in ps : p.category = c})>> : c \in {p.category : p \in ps}}

\* C16: the categories route returns one entry per category present among
\* the stored posts, each with the exact number of posts of that category,
\* and no other entry; the counts sum to the number of stored posts.
C16_CategoriesExact ==
    (response.called /\ response.route = "categories") =>
        LET data == response.body.data IN
        /\ {<<data[i].name, data[i].count>> : i \in 1..Len(data)}
              = CategoryCounts(response.stored)
        /\ Len(data) = Cardinality(CategoryCounts(response.stored))

\* C17: the statistics route reports the number of stored posts as
\* total_posts and, for archives within the window of 1000 posts, the
\* number of stored posts of each media kind as histogram.
C17_StatsExact ==
    (response.called /\ response.route = "stats"
        /\ Cardinality(response.stored) <= StatsWindow) =>
        LET data == response.body.data
            kinds == {p.media_type : p \in response.stored}
        IN /\ data.total_posts = Cardinality(response.stored)
           /\ DOMAIN data.media_types = kinds
           /\ \A m \in kinds :
                 data.media_types[m] =
                     Cardinality({p \in response.stored : p.media_type = m})

\* the four fields an upsert writes
UpsertFields(r) == <<r.message_id, r.content, r.media_type, r.category, r.timestamp>>

\* the commits of the upserts for a message id, by position in commit order
CommitsOf(message_id) ==
    {i \in 1..Len(committed) : committed[i].message_id = message_id}

StoredIds(ps) == {p.message_id : p \in ps}

\* C21: a post is created by the first successful save of its message id
\* and never deleted: the set of stored message ids only grows, the post
\* count never decreases, and the count equals the number of distinct
\* message ids saved successfully.
C21_PostsOnlyGrow ==
    /\ [](get_post_count(posts, FALSE)
            = Cardinality({committed[i].message_id : i \in 1..Len(committed)}))
    /\ [][ /\ StoredIds(posts) \subseteq StoredIds(posts')
           /\ get_post_count(posts', FALSE) >= get_post_count(posts, FALSE) ]_vars

\* message 42 was saved, and then a different message, 43
C21_Witness ==
    /\ Len(committed) = 2
    /\ committed[1].message_id = 42
    /\ committed[2].message_id = 43
    /\ StoredIds(posts) = {42, 43}
    /\ get_post_count(posts, FALSE) = 2

\* C22: migrate_postgres returns True on every path (DATABASE_URL unset,
\* table present, table created, a step raising), so the script exits
\* with code 0.
C22_MigrationNeverFailsBuild ==
    migration.called => (migration.returned /\ migration.exit_code = 0)

\* a migration in which a step raised has returned True
C22_Witness ==
    /\ migration.called
    /\ migration.fault # "none"
    /\ migration.path = "except"
    /\ migration.returned

\* C23: when save_message has returned True for a record, a following
\* get_post_by_id for its message id returns a post with the saved content,
\* media type, category and timestamp, whichever class db_manager is.
C23_SavedThenFound ==
    [][ ( /\ last.event = "saved"
          /\ fetched' # fetched
          /\ fetched'.called
          /\ fetched'.op = "get_post_by_id"
          /\ fetched'.message_id = last.rec.message_id
          /\ UNCHANGED last )
        => ( /\ fetched'.post.present
             /\ UpsertFields(fetched'.post.val) = UpsertFields(last.rec) ) ]_vars

\* C24: on PostgreSQL, once migrate_postgres has completed and
\* DatabaseManager() has run _init_db, in either order, the save of a valid
\* record succeeds and get_all_posts then returns the record.
C24_SaveAfterEitherOrder ==
    ( /\ db_type = "postgres"
      /\ db_manager = "DatabaseManager"
      /\ migration.called
      /\ migration.path \in {"created", "exists"} )
    => /\ last.event \in {"failed", "error"} => last.fault # "none"
       /\ last.event = "saved" =>
             \A rows \in get_all_posts(posts, None, None, ReadFails(FALSE)) :
                 \E i \in 1..Len(rows) :
                     UpsertFields(rows[i]) = UpsertFields(last.rec)

\* C25: reads and error-log writes that fail without a rollback do not make
\* a later save fail: after any sequence of them, the save of a valid
\* record, with nothing going wrong during the call, is stored.
C25_SaveAfterFailedReads ==
    /\ last.event \in {"failed", "error"} => last.fault # "none"
    /\ last.event = "saved" => StoredAs(posts, last.rec.message_id) # {}

\* C26: every saved post has one category out of news, announcement,
\* quotes, photos, videos, media, general, never important, so the admin is
\* notified about a saved post exactly when its category is announcement
\* and its content is not empty.
C26_NotifiedIffAnnouncement ==
    last.event = "saved" =>
        /\ last.rec.category \in
              {"news", "announcement", "quotes", "photos", "videos", "media", "general"}
        /\ last.rec.category # "important"
        /\ last.notified <=>
              (last.rec.category = "announcement" /\ last.rec.content # <<>>)

\* the admin was notified about a saved announcement whose text contains
\* the word important
C26_Witness ==
    /\ last.event = "saved"
    /\ last.rec.content = TxtNotice
    /\ last.rec.category = "announcement"
    /\ last.notified

====
